---- MODULE Spec2Model ----
(***************************************************************************)
(* sh-profile: run a command, timestamp its output lines, build a Firefox  *)
(* Profiler document from them and serve it once over a local HTTP server. *)
(*                                                                         *)
(* Three specifications share the variables below:                         *)
(*   SpecIntern  the UniqueStringArray class on its own;                   *)
(*   SpecRecord  run_command followed by build_profile, one action per     *)
(*               received line and per loop iteration;                     *)
(*   Spec        main and open_profile with the ServeFile handler, the     *)
(*               browser and the other local processes of the machine.     *)
(* A Python str is a sequence of one-character strings; "ESC" stands for   *)
(* the character \x1B.                                                     *)
(***************************************************************************)
EXTENDS Integers, Sequences, FiniteSets, TLC

VARIABLES
    pc,                    \* where the program is
    \* ---- UniqueStringArray under test (SpecIntern)
    usa,                   \* the instance: [_array, _string_to_index]
    usa_calls,             \* history: the (s, index) pairs index_for_string returned
    usa_serialized,        \* the last value serialize_to_array returned
    \* ---- run_command (SpecRecord)
    received,              \* history: the lines read from process.stdout
    stdout,                \* what print() wrote
    buffer,                \* run_command's buffer
    \* ---- build_profile (SpecRecord)
    profile,               \* the profile dict (thread and markers alias into it)
    profile_start_time,
    category_index_dict,
    string_array,          \* build_profile's UniqueStringArray
    it,                    \* position of the for loop in buffer
    \* ---- main / open_profile / ServeFile (Spec)
    argv,                  \* args.command as argparse returns it
    command,               \* open_profile's command parameter
    profile_data,          \* module global
    waiting_for_request,   \* module global
    port,                  \* open_profile's port
    holder,                \* who holds each local TCP port
    opened_url,            \* what webbrowser.open was given
    browser,               \* what became of the browser's fetch
    backlog,               \* requests accepted by the listening socket, unhandled
    responses,             \* history: what the handler sent, per handled request
    refused,               \* history: connections that found nobody listening
    sent                   \* number of requests clients have sent

varsIntern == <<usa, usa_calls, usa_serialized>>
varsRecord == <<received, stdout, buffer, profile, profile_start_time,
                category_index_dict, string_array, it>>
varsServe  == <<argv, command, profile_data, waiting_for_request, port, holder,
                opened_url, browser, backlog, responses, refused, sent>>
vars == <<pc, varsIntern, varsRecord, varsServe>>

None == "None"

-----------------------------------------------------------------------------
(* Python str helpers *)

ESC == "ESC"
NL  == "\n"
Digits     == {"0", "1", "2", "3", "4", "5", "6", "7", "8", "9"}
Whitespace == {" ", NL, "\t"}

\* str.strip(): drop leading and trailing whitespace
RECURSIVE LStrip(_)
LStrip(s) == IF s # <<>> /\ Head(s) \in Whitespace THEN LStrip(Tail(s)) ELSE s

RECURSIVE RStrip(_)
RStrip(s) ==
    IF s # <<>> /\ s[Len(s)] \in Whitespace
    THEN RStrip(SubSeq(s, 1, Len(s) - 1)) ELSE s

Strip(s) == RStrip(LStrip(s))

\* s[:-1]
DropLast(s) == IF s = <<>> THEN <<>> ELSE SubSeq(s, 1, Len(s) - 1)

\* " ".join(parts)
RECURSIVE Join(_)
Join(parts) ==
    IF parts = <<>> THEN <<>>
    ELSE IF Len(parts) = 1 THEN parts[1]
    ELSE parts[1] \o <<" ">> \o Join(Tail(parts))

\* first index >= j of s that holds no digit (Len(s) + 1 when there is none)
RECURSIVE DigitsEnd(_, _)
DigitsEnd(s, j) ==
    IF j <= Len(s) /\ s[j] \in Digits THEN DigitsEnd(s, j + 1) ELSE j

\* The tail of the pattern, (;\d+){0,2}m, tried at index j after k groups:
\* the index of the closing m, or 0 when the pattern does not match.
RECURSIVE AnsiTail(_, _, _)
AnsiTail(s, j, k) ==
    IF j > Len(s) THEN 0
    ELSE IF s[j] = "m" THEN j
    ELSE IF s[j] = ";" /\ k < 2 /\ DigitsEnd(s, j + 1) > j + 1
         THEN AnsiTail(s, DigitsEnd(s, j + 1), k + 1)
    ELSE 0

\* re.match of \x1B\[\d+(;\d+){0,2}m at index i: index of the last matched
\* character, or 0
AnsiMatchEnd(s, i) ==
    IF i + 1 <= Len(s) /\ s[i] = ESC /\ s[i + 1] = "[" /\ DigitsEnd(s, i + 2) > i + 2
    THEN AnsiTail(s, DigitsEnd(s, i + 2), 0)
    ELSE 0

RECURSIVE StripFrom(_, _)
StripFrom(s, i) ==
    IF i > Len(s) THEN <<>>
    ELSE IF AnsiMatchEnd(s, i) > 0 THEN StripFrom(s, AnsiMatchEnd(s, i) + 1)
    ELSE <<s[i]>> \o StripFrom(s, i + 1)

\* pattern.sub("", string)
strip_ansi(string) == StripFrom(string, 1)

-----------------------------------------------------------------------------
(* class UniqueStringArray *)

\* __init__ with original_array = None
UniqueStringArray == [_array |-> <<>>, _string_to_index |-> <<>>]

has_index(self, index) == index < Len(self._array)

has_string(self, s) == s \in DOMAIN self._string_to_index

\* a faulty variant: `if not index` instead of `if index is None` (index 0 is falsy)
index_for_string_falsy(self, s) ==
    LET missing == s \notin DOMAIN self._string_to_index
        found == IF missing THEN 0 ELSE self._string_to_index[s]
    IN  IF missing \/ found = 0
        THEN [self  |-> [_array |-> Append(self._array, s),
                         _string_to_index |->
                            (s :> Len(self._array)) @@ self._string_to_index],
              index |-> Len(self._array)]
        ELSE [self |-> self, index |-> found]

\* returns the instance after the call and the index returned
index_for_string(self, s) ==
    LET missing == s \notin DOMAIN self._string_to_index
        found == IF missing THEN 0 ELSE self._string_to_index[s]
    IN  IF missing
        THEN [self  |-> [_array |-> Append(self._array, s),
                         _string_to_index |->
                            (s :> Len(self._array)) @@ self._string_to_index],
              index |-> Len(self._array)]
        ELSE [self |-> self, index |-> found]

serialize_to_array(self) == self._array

-----------------------------------------------------------------------------
(* SpecIntern: any sequence of calls on a fresh UniqueStringArray *)

MaxCalls == 4
InternStrings == {"sh-profile", "a", "b", "c"}

InitIntern ==
    /\ pc = "intern"
    /\ usa = UniqueStringArray
    /\ usa_calls = <<>>
    /\ usa_serialized = <<>>
    /\ received = <<>> /\ stdout = <<>> /\ buffer = <<>>
    /\ profile = None /\ profile_start_time = 0
    /\ category_index_dict = <<>> /\ string_array = None /\ it = 0
    /\ argv = <<>> /\ command = <<>> /\ profile_data = None
    /\ waiting_for_request = TRUE /\ port = 0
    /\ holder = <<>> /\ opened_url = None /\ browser = "closed"
    /\ backlog = <<>> /\ responses = <<>> /\ refused = 0 /\ sent = 0

CallIndexForString(s) ==
    /\ pc = "intern"
    /\ Len(usa_calls) < MaxCalls
    /\ LET r == index_for_string(usa, s)
       IN  /\ usa' = r.self
           /\ usa_calls' = Append(usa_calls, [s |-> s, index |-> r.index])
    /\ UNCHANGED <<pc, usa_serialized, varsRecord, varsServe>>

CallSerializeToArray ==
    /\ pc = "intern"
    /\ usa_serialized' = serialize_to_array(usa)
    /\ UNCHANGED <<pc, usa, usa_calls, varsRecord, varsServe>>

NextIntern ==
    \/ \E s \in InternStrings : CallIndexForString(s)
    \/ CallSerializeToArray

SpecIntern == InitIntern /\ [][NextIntern]_vars

\* the distinct strings of a call history, in first-seen order
RECURSIVE FirstSeen(_)
FirstSeen(calls) ==
    IF calls = <<>> THEN <<>>
    ELSE LET before == FirstSeen(DropLast(calls))
             s == calls[Len(calls)].s
         IN  IF \E k \in 1..Len(before) : before[k] = s
             THEN before ELSE Append(before, s)

\* C5: after any sequence of index_for_string calls on a fresh
\* UniqueStringArray, every call returned the position (counted from 0) of
\* its string among the distinct strings in first-seen order, so a repeated
\* string gets its first index again and n distinct strings hold 0..n-1; and
\* serialize_to_array returns exactly those strings in index order.
C5_InternStable ==
    pc = "intern" =>
        LET seen == FirstSeen(usa_calls)
        IN  /\ \A k \in 1..Len(usa_calls) :
                  /\ usa_calls[k].index \in 0..(Len(seen) - 1)
                  /\ seen[usa_calls[k].index + 1] = usa_calls[k].s
            /\ serialize_to_array(usa) = seen
            /\ \A s \in DOMAIN usa._string_to_index :
                  usa._array[usa._string_to_index[s] + 1] = s
            /\ \E n \in 0..Len(usa_calls) :
                  usa_serialized = FirstSeen(SubSeq(usa_calls, 1, n))

\* a string interned a second time after two others, then serialized
C5_Witness ==
    /\ pc = "intern"
    /\ Len(usa_calls) = 4
    /\ usa_calls[1].s = usa_calls[4].s
    /\ usa_calls[4].index = 0
    /\ usa_calls[2].s # usa_calls[1].s
    /\ usa_calls[3].s \notin {usa_calls[1].s, usa_calls[2].s}
    /\ usa_serialized = <<usa_calls[1].s, usa_calls[2].s, usa_calls[3].s>>

-----------------------------------------------------------------------------
(* run_command *)

\* datetime values are whole seconds since the epoch
MaxTime == 2
Times == 0..MaxTime

\* get_timestamp_ms: dt.timestamp() * 1000.0
get_timestamp_ms(dt) == dt * 1000

\* dt.strftime("%H:%M:%S") and dt.strftime("%Y-%m-%d"), as second of the day
\* and day number
strftime_hour(dt) == dt % 86400
strftime_date(dt) == dt \div 86400

\* a faulty variant: the line is stored the way it is printed, without its last character
RecordLine_chopped(buf, line, now) ==
    IF Strip(line) # <<>>
    THEN Append(buf, <<now, strip_ansi(DropLast(line))>>)
    ELSE buf

\* the body of the for loop of run_command, after the print: `now` is what
\* datetime.now() returns
RecordLine(buf, line, now) ==
    IF Strip(line) # <<>>
    THEN Append(buf, <<now, strip_ansi(line)>>)
    ELSE buf

-----------------------------------------------------------------------------
(* build_profile and the documents it starts from *)

get_categories ==
    << [name |-> "sh-profile", color |-> "lightblue", subcategories |-> <<"Other">>] >>

\* `t` is what time.time() returns, in whole seconds
get_empty_profile(t) ==
    [meta |-> [interval |-> 1,
               startTime |-> t * 1000,
               categories |-> get_categories,
               product |-> "sh-profile",
               version |-> 29,
               preprocessedProfileVersion |-> 48],
     libs |-> <<>>,
     pages |-> <<>>,
     threads |-> <<>>]

get_empty_thread ==
    [name |-> "Empty",
     isMainThread |-> TRUE,
     pid |-> "0",
     tid |-> 0,
     markers |-> [data |-> <<>>, name |-> <<>>, startTime |-> <<>>,
                  endTime |-> <<>>, phase |-> <<>>, category |-> <<>>,
                  length |-> 0],
     stringArray |-> <<>>]

\* {category["name"]: index for index, category in enumerate(categories)}
CategoryIndexDict(categories) ==
    [n \in {categories[k].name : k \in 1..Len(categories)} |->
        (CHOOSE k \in 1..Len(categories) :
            /\ categories[k].name = n
            /\ \A j \in (k + 1)..Len(categories) : categories[j].name # n) - 1]

\* dict.get(key, default)
DictGet(d, key, default) == IF key \in DOMAIN d THEN d[key] ELSE default

\* a faulty variant: profile_start_time is computed but not saved into meta, and the
\* markers are made relative to what meta holds
BuildStart_unsaved(buf, t) ==
    LET empty == get_empty_profile(t)
        thread == [get_empty_thread EXCEPT !.name = "sh-profile"]
        p == [empty EXCEPT !.threads = Append(@, thread)]
    IN  [profile |-> p,
         profile_start_time |-> 0,
         category_index_dict |-> CategoryIndexDict(p.meta.categories),
         string_array |-> UniqueStringArray]

\* build_profile up to its loop
BuildStart(buf, t) ==
    LET empty == get_empty_profile(t)
        start == IF buf # <<>> THEN get_timestamp_ms(buf[1][1]) ELSE 0
        p0 == IF buf # <<>> THEN [empty EXCEPT !.meta.startTime = start] ELSE empty
        thread == [get_empty_thread EXCEPT !.name = "sh-profile",
                                           !.isMainThread = TRUE]
        p == [p0 EXCEPT !.threads = Append(@, thread)]
    IN  [profile |-> p,
         profile_start_time |-> start,
         category_index_dict |-> CategoryIndexDict(p.meta.categories),
         string_array |-> UniqueStringArray]

MarkerData(dt, line) ==
    [type |-> "sh-profile", name |-> "sh-profile", line |-> line,
     hour |-> strftime_hour(dt), date |-> strftime_date(dt)]

\* a faulty variant: the marker's length is not counted
BuildBody_uncounted(st, ev) ==
    LET dt == ev[1]
        line == ev[2]
        run_start == get_timestamp_ms(dt)
        r == index_for_string(st.string_array, "sh-profile")
    IN  [st EXCEPT
            !.profile.threads[1].markers =
                [@ EXCEPT !.startTime = Append(@, run_start - st.profile_start_time),
                          !.endTime = Append(@, None),
                          !.phase = Append(@, 0),
                          !.category = Append(@,
                              DictGet(st.category_index_dict, "sh-profile", 0)),
                          !.name = Append(@, r.index),
                          !.data = Append(@, MarkerData(dt, line))],
            !.string_array = r.self]

\* a faulty variant: the line's text is interned as the marker's name
BuildBody_lineName(st, ev) ==
    LET dt == ev[1]
        line == ev[2]
        run_start == get_timestamp_ms(dt)
        r == index_for_string(st.string_array, line)
    IN  [st EXCEPT
            !.profile.threads[1].markers =
                [@ EXCEPT !.startTime = Append(@, run_start - st.profile_start_time),
                          !.endTime = Append(@, None),
                          !.phase = Append(@, 0),
                          !.category = Append(@,
                              DictGet(st.category_index_dict, "sh-profile", 0)),
                          !.name = Append(@, r.index),
                          !.data = Append(@, MarkerData(dt, line)),
                          !.length = @ + 1],
            !.string_array = r.self]

\* one iteration of build_profile's loop, for the event ev = (dt, line)
BuildBody(st, ev) ==
    LET dt == ev[1]
        line == ev[2]
        run_start == get_timestamp_ms(dt)
        instant_marker == 0
        r == index_for_string(st.string_array, "sh-profile")
    IN  [st EXCEPT
            !.profile.threads[1].markers =
                [@ EXCEPT !.startTime = Append(@, run_start - st.profile_start_time),
                          !.endTime = Append(@, None),
                          !.phase = Append(@, instant_marker),
                          !.category = Append(@,
                              DictGet(st.category_index_dict, "sh-profile", 0)),
                          !.name = Append(@, r.index),
                          !.data = Append(@, MarkerData(dt, line)),
                          !.length = @ + 1],
            !.string_array = r.self]

\* build_profile after its loop: the profile returned
BuildEnd(st) ==
    [st.profile EXCEPT !.threads[1].stringArray = serialize_to_array(st.string_array)]

RECURSIVE BuildLoop(_, _, _)
BuildLoop(st, buf, k) ==
    IF k > Len(buf) THEN st ELSE BuildLoop(BuildBody(st, buf[k]), buf, k + 1)

build_profile(buf, t) == BuildEnd(BuildLoop(BuildStart(buf, t), buf, 1))

-----------------------------------------------------------------------------
(* SpecRecord: run_command on any output of the command, then build_profile *)

MaxLines == 3

\* lines as iterating process.stdout yields them: each ends with its newline,
\* except a last line the command did not terminate
LineA     == <<"a", NL>>
LineB     == <<"b", NL>>
LineEmpty == <<NL>>
LineSpace == <<" ", NL>>
LineAnsi  == <<ESC, "[", "1", ";", "0", "m", "a", NL>>
LineOpen  == <<"b">>
Lines == {LineA, LineB, LineEmpty, LineSpace, LineAnsi, LineOpen}

InitRecord ==
    /\ pc = "run_command"
    /\ usa = UniqueStringArray /\ usa_calls = <<>> /\ usa_serialized = <<>>
    /\ received = <<>> /\ stdout = <<>> /\ buffer = <<>>
    /\ profile = None /\ profile_start_time = 0
    /\ category_index_dict = <<>> /\ string_array = None /\ it = 0
    /\ argv = <<>> /\ command = <<>> /\ profile_data = None
    /\ waiting_for_request = TRUE /\ port = 0
    /\ holder = <<>> /\ opened_url = None /\ browser = "closed"
    /\ backlog = <<>> /\ responses = <<>> /\ refused = 0 /\ sent = 0

\* the stream is at its end once a line without a newline was read
StreamOpen ==
    IF received = <<>> THEN TRUE
    ELSE LET last == received[Len(received)] IN last[Len(last)] = NL

\* one iteration of `for line in process.stdout`
ReceiveLine(line, now) ==
    /\ pc = "run_command"
    /\ StreamOpen
    /\ Len(received) < MaxLines
    /\ received' = Append(received, line)
    /\ stdout' = Append(stdout, DropLast(line))
    /\ buffer' = RecordLine(buffer, line, now)
    /\ UNCHANGED <<pc, profile, profile_start_time, category_index_dict,
                   string_array, it, varsIntern, varsServe>>

\* the stream closes: process.wait() and return buffer; main calls build_profile
StreamClosed ==
    /\ pc = "run_command"
    /\ pc' = "build_profile"
    /\ UNCHANGED <<varsIntern, varsRecord, varsServe>>

BuildProfileStart(t) ==
    /\ pc = "build_profile"
    /\ LET st == BuildStart(buffer, t)
       IN  /\ profile' = st.profile
           /\ profile_start_time' = st.profile_start_time
           /\ category_index_dict' = st.category_index_dict
           /\ string_array' = st.string_array
    /\ it' = 1
    /\ pc' = "build_loop"
    /\ UNCHANGED <<received, stdout, buffer, varsIntern, varsServe>>

BuildState ==
    [profile |-> profile, profile_start_time |-> profile_start_time,
     category_index_dict |-> category_index_dict, string_array |-> string_array]

BuildProfileIterate ==
    /\ pc = "build_loop"
    /\ it <= Len(buffer)
    /\ LET st == BuildBody(BuildState, buffer[it])
       IN  /\ profile' = st.profile
           /\ string_array' = st.string_array
    /\ it' = it + 1
    /\ UNCHANGED <<pc, received, stdout, buffer, profile_start_time,
                   category_index_dict, varsIntern, varsServe>>

BuildProfileReturn ==
    /\ pc = "build_loop"
    /\ it > Len(buffer)
    /\ profile' = BuildEnd(BuildState)
    /\ pc' = "built"
    /\ UNCHANGED <<received, stdout, buffer, profile_start_time,
                   category_index_dict, string_array, it, varsIntern, varsServe>>

NextRecord ==
    \/ \E line \in Lines, now \in Times : ReceiveLine(line, now)
    \/ StreamClosed
    \/ \E t \in Times : BuildProfileStart(t)
    \/ BuildProfileIterate
    \/ BuildProfileReturn

SpecRecord == InitRecord /\ [][NextRecord]_vars

-----------------------------------------------------------------------------
(* Properties of run_command and build_profile, under SpecRecord *)

Markers == profile.threads[1].markers

\* a line that is not blank after trimming holds a character that is no whitespace
NonBlank(l) == \E k \in 1..Len(l) : l[k] \notin Whitespace

EndsWithNewline(l) == l # <<>> /\ l[Len(l)] = NL

\* the text of a line without its line terminator
Chomp(l) == IF EndsWithNewline(l) THEN SubSeq(l, 1, Len(l) - 1) ELSE l

\* C2 as stated: one marker per received line that is not blank, in arrival
\* order, none for a blank line, and each marker's data.line is its line's
\* text without the line terminator.
C2_LineWithoutTerminator ==
    pc = "built" =>
        LET kept == SelectSeq(received, NonBlank)
        IN  /\ Markers.length = Len(kept)
            /\ Len(Markers.data) = Len(kept)
            /\ \A k \in 1..Len(kept) :
                   Markers.data[k].line = strip_ansi(Chomp(kept[k]))

\* C2 as amended: one marker per received line that is not blank, in arrival
\* order, none for a blank line, and each marker's data.line is its line's
\* text with the ANSI SGR sequences removed and the line terminator kept.
C2_LineKeepsTerminator ==
    pc = "built" =>
        LET kept == SelectSeq(received, NonBlank)
        IN  /\ Markers.length = Len(kept)
            /\ Len(Markers.data) = Len(kept)
            /\ \A k \in 1..Len(kept) :
                   /\ Markers.data[k].line = strip_ansi(kept[k])
                   /\ EndsWithNewline(Markers.data[k].line) = EndsWithNewline(kept[k])

\* the lines "a\n", "\n", "b\n" gave two markers, "a\n" then "b\n"
C2_Witness ==
    /\ pc = "built"
    /\ received = <<LineA, LineEmpty, LineB>>
    /\ Markers.length = 2
    /\ Markers.data[1].line = <<"a", NL>>
    /\ Markers.data[2].line = <<"b", NL>>

\* C3: from the start of build_profile's loop on, after every iteration, the
\* six marker columns have one length and the length field equals it.
C3_ColumnsSameLength ==
    pc \in {"build_loop", "built"} =>
        /\ Len(Markers.startTime) = Markers.length
        /\ Len(Markers.endTime) = Markers.length
        /\ Len(Markers.phase) = Markers.length
        /\ Len(Markers.category) = Markers.length
        /\ Len(Markers.name) = Markers.length
        /\ Len(Markers.data) = Markers.length

\* inside the loop, two of three events appended
C3_Witness ==
    /\ pc = "build_loop"
    /\ Len(buffer) = 3
    /\ it = 3
    /\ Markers.length = 2
    /\ Len(Markers.data) = 2

Chronological(buf) ==
    \A k \in 1..(Len(buf) - 1) : buf[k][1] <= buf[k + 1][1]

\* C4: for a non-empty buffer meta.startTime is the first event's timestamp
\* in ms, marker k's startTime is event k's timestamp minus meta.startTime,
\* the first marker's startTime is 0, and for a chronologically ordered
\* buffer the startTime column is non-decreasing.
C4_RelativeStartTimes ==
    (pc \in {"build_loop", "built"} /\ buffer # <<>>) =>
        /\ profile.meta.startTime = buffer[1][1] * 1000
        /\ \A k \in 1..Len(Markers.startTime) :
               Markers.startTime[k] = buffer[k][1] * 1000 - profile.meta.startTime
        /\ Len(Markers.startTime) >= 1 => Markers.startTime[1] = 0
        /\ Chronological(buffer) =>
               \A k \in 1..(Len(Markers.startTime) - 1) :
                   Markers.startTime[k] <= Markers.startTime[k + 1]
        /\ pc = "built" => Len(Markers.startTime) = Len(buffer)

\* three events one second apart, the first one not at time 0
C4_Witness ==
    /\ pc = "built"
    /\ Len(buffer) = 3
    /\ buffer[1][1] = 1
    /\ buffer[2][1] = 2
    /\ buffer[3][1] = 2
    /\ profile.meta.startTime = 1000
    /\ Markers.startTime = <<0, 1000, 1000>>

Count(seq, x) == Cardinality({k \in 1..Len(seq) : seq[k] = x})

NamesAndCategoriesValid ==
    LET thread == profile.threads[1]
    IN  /\ \A k \in 1..Len(Markers.name) :
               /\ Markers.name[k] \in 0..(Len(thread.stringArray) - 1)
               /\ thread.stringArray[Markers.name[k] + 1] = "sh-profile"
        /\ \A k \in 1..Len(Markers.category) :
               Markers.category[k] \in 0..(Len(profile.meta.categories) - 1)

\* C10 as stated: for every buffer, the empty one included, the profile
\* returned holds "sh-profile" exactly once in the thread's stringArray, every
\* markers.name entry is its index and every markers.category entry indexes
\* meta.categories.
C10_NameInternedAlways ==
    pc = "built" =>
        /\ Count(profile.threads[1].stringArray, "sh-profile") = 1
        /\ NamesAndCategoriesValid

\* C10 as amended: for a non-empty buffer the stringArray is exactly
\* <<"sh-profile">>; for the empty buffer it is empty (the name is interned
\* inside the loop only); the index properties hold in both cases.
C10_NameInternedByLoop ==
    pc = "built" =>
        /\ buffer # <<>> => profile.threads[1].stringArray = <<"sh-profile">>
        /\ buffer = <<>> => profile.threads[1].stringArray = <<>>
        /\ Len(Markers.name) = Len(buffer)
        /\ NamesAndCategoriesValid

C10_Witness ==
    /\ pc = "built"
    /\ Len(buffer) = 2
    /\ profile.threads[1].stringArray = <<"sh-profile">>
    /\ Markers.name = <<0, 0>>
    /\ Markers.category = <<0, 0>>

-----------------------------------------------------------------------------
(* urllib.parse.quote / unquote and the visualizer URL *)

\* characters quote() never encodes (ASCII letters, digits and _.-~), as far
\* as they occur here
Unreserved ==
    {"a", "b", "c", "e", "f", "h", "i", "l", "m", "o", "p", "r", "s", "t", "x",
     "-", ".", "_", "~"} \cup Digits

\* the two hex digits of the other characters that occur here
HexOf ==
    (" " :> <<"2", "0">>) @@ ("%" :> <<"2", "5">>) @@ ("/" :> <<"2", "F">>) @@
    (":" :> <<"3", "A">>) @@ ("?" :> <<"3", "F">>) @@ ("=" :> <<"3", "D">>)

\* urllib.parse.quote(s, safe="")
RECURSIVE quote(_)
quote(s) ==
    IF s = <<>> THEN <<>>
    ELSE (IF Head(s) \in Unreserved THEN <<Head(s)>> ELSE <<"%">> \o HexOf[Head(s)])
         \o quote(Tail(s))

\* urllib.parse.unquote(s): a % followed by two hex digits is one character,
\* anything else stands for itself
RECURSIVE unquote(_)
unquote(s) ==
    IF s = <<>> THEN <<>>
    ELSE IF /\ Head(s) = "%"
            /\ Len(s) >= 3
            /\ \E c \in DOMAIN HexOf : HexOf[c] = <<s[2], s[3]>>
         THEN <<CHOOSE c \in DOMAIN HexOf : HexOf[c] = <<s[2], s[3]>> >>
              \o unquote(SubSeq(s, 4, Len(s)))
         ELSE <<Head(s)>> \o unquote(Tail(s))

FromUrlPrefix ==
    <<"h", "t", "t", "p", "s", ":", "/", "/", "p", "r", "o", "f", "i", "l",
      "e", "r", ".", "f", "i", "r", "e", "f", "o", "x", ".", "c", "o", "m",
      "/", "f", "r", "o", "m", "-", "u", "r", "l", "/">>

LocalhostPrefix ==
    <<"h", "t", "t", "p", ":", "/", "/", "l", "o", "c", "a", "l", "h", "o",
      "s", "t", ":">>

NameParam == <<"?", "n", "a", "m", "e", "=">>

\* str(port), for the one-digit port numbers of the model
PortStr(p) == <<(<<"1", "2", "3", "4", "5", "6", "7", "8", "9">>)[p]>>

\* the argument of webbrowser.open
VisualizerUrl(p, cmd) ==
    FromUrlPrefix \o quote(LocalhostPrefix \o PortStr(p)) \o NameParam
    \o quote(Join(cmd))

\* what the visualizer reads back: the text after "?name=", percent-decoded
RECURSIVE AfterQuestionMark(_)
AfterQuestionMark(url) ==
    IF url = <<>> THEN <<>>
    ELSE IF Head(url) = "?" THEN Tail(url)
    ELSE AfterQuestionMark(Tail(url))

DecodedName(url) ==
    LET query == AfterQuestionMark(url)
    IN  unquote(SubSeq(query, Len(NameParam), Len(query)))

-----------------------------------------------------------------------------
(* class ServeFile *)

\* _set_headers: send_response(200) and the two headers
set_headers_204 ==
    [status |-> 204, content_type |-> "application/json", allow_origin |-> "*"]

set_headers ==
    [status |-> 200, content_type |-> "application/json", allow_origin |-> "*"]

\* BaseHTTPRequestHandler.send_error(code), which ServeFile inherits: the
\* answer to a request ServeFile defines no do_ method for (501) or whose
\* request line does not parse (400)
send_error(code) ==
    [status |-> code, content_type |-> "text/html", allow_origin |-> None]

\* What one call of a do_ method did: the response it sent (body is the
\* bytes written after the headers), which write
\* failed ("none", "headers", "body"), whether the exception left the method
\* (raised) or was printed by it (logged), and the value of the global
\* waiting_for_request afterwards.
Handled(method, head, body, failed, fate, waiting) ==
    [method |-> method, status |-> head.status,
     content_type |-> head.content_type, allow_origin |-> head.allow_origin,
     body |-> body, failed |-> failed, fate |-> fate, waiting |-> waiting]

\* do_HEAD; headersOk is whether end_headers could write to the client
do_HEAD(headersOk, waiting) ==
    IF headersOk
    THEN Handled("HEAD", set_headers, <<>>, "none", "none", waiting)
    ELSE Handled("HEAD", set_headers, <<>>, "headers", "raised", waiting)

\* a faulty variant: the flag is never cleared
do_GET_forever(headersOk, bodyOk, data, waiting) ==
    IF ~headersOk
    THEN Handled("GET", set_headers, <<>>, "headers", "raised", waiting)
    ELSE IF bodyOk
    THEN Handled("GET", set_headers, data, "none", "none", waiting)
    ELSE Handled("GET", set_headers, <<>>, "body", "logged", waiting)

\* a faulty variant: the flag is cleared inside the try, after the write
do_GET_inside_try(headersOk, bodyOk, data, waiting) ==
    IF ~headersOk
    THEN Handled("GET", set_headers, <<>>, "headers", "raised", waiting)
    ELSE IF bodyOk
    THEN Handled("GET", set_headers, data, "none", "none", FALSE)
    ELSE Handled("GET", set_headers, <<>>, "body", "logged", waiting)

\* do_GET; bodyOk is whether wfile.write(profile_data) succeeded
do_GET(headersOk, bodyOk, data, waiting) ==
    IF ~headersOk
    THEN Handled("GET", set_headers, <<>>, "headers", "raised", waiting)
    ELSE IF bodyOk
    THEN Handled("GET", set_headers, data, "none", "none", FALSE)
    ELSE Handled("GET", set_headers, <<>>, "body", "logged", FALSE)

-----------------------------------------------------------------------------
(* Spec: main, open_profile, the browser and the other local processes *)

MaxRequests == 3

ArgDashes == <<"-", "-">>
ArgEcho   == <<"e", "c", "h", "o">>
ArgHi     == <<"h", "i">>
ArgOdd    == <<"a", "%", "b", " ", "c">>

\* values of args.command: argparse.REMAINDER keeps a leading --
ArgVectors ==
    { <<>>,
      <<ArgEcho, ArgHi>>,
      <<ArgEcho, ArgDashes>>,
      <<ArgDashes>>,
      <<ArgDashes, ArgEcho>>,
      <<ArgDashes, ArgEcho, ArgHi>>,
      <<ArgDashes, ArgEcho, ArgOdd>>,
      <<ArgDashes, ArgDashes, ArgOdd, ArgHi>> }

\* what the command may print, with the time each line is read
SampleRuns ==
    { <<>>,
      << <<LineA, 1>>, <<LineEmpty, 1>>, <<LineB, 2>> >> }

\* run_command's loop over a whole run
RECURSIVE run_command(_, _)
run_command(run, buf) ==
    IF run = <<>> THEN buf
    ELSE run_command(Tail(run), RecordLine(buf, Head(run)[1], Head(run)[2]))

\* json.dumps(profile).encode("utf-8")
json_dumps(p) == <<"json", p>>

Ports == {1, 2}
Methods == {"GET", "HEAD", "POST", "BAD"}

Init ==
    /\ pc = "main"
    /\ argv \in ArgVectors
    /\ usa = UniqueStringArray /\ usa_calls = <<>> /\ usa_serialized = <<>>
    /\ received = <<>> /\ stdout = <<>> /\ buffer = <<>>
    /\ profile = None /\ profile_start_time = 0
    /\ category_index_dict = <<>> /\ string_array = None /\ it = 0
    /\ command = <<>> /\ profile_data = None
    /\ waiting_for_request = TRUE /\ port = 0
    /\ holder = [p \in Ports |-> "free"]
    /\ opened_url = None /\ browser = "closed"
    /\ backlog = <<>> /\ responses = <<>> /\ refused = 0 /\ sent = 0

\* main with a missing command or a missing leading --
MainUsageError ==
    /\ pc = "main"
    /\ IF argv = <<>> THEN TRUE ELSE argv[1] # ArgDashes
    /\ pc' = "exit_1"
    /\ UNCHANGED <<varsIntern, varsRecord, varsServe>>

\* the command main passes to open_profile
MainCommand(args) == args

\* main up to its call of open_profile, and open_profile's first statement
Main(run, t) ==
    /\ pc = "main"
    /\ argv # <<>>
    /\ argv[1] = ArgDashes
    /\ received' = [k \in 1..Len(run) |-> run[k][1]]
    /\ stdout' = [k \in 1..Len(run) |-> DropLast(run[k][1])]
    /\ buffer' = run_command(run, <<>>)
    /\ profile' = build_profile(buffer', t)
    /\ command' = MainCommand(argv)
    /\ profile_data' = json_dumps(profile')
    /\ pc' = "get_free_port"
    /\ UNCHANGED <<profile_start_time, category_index_dict,
                   string_array, it, argv, waiting_for_request, port, holder,
                   opened_url, browser, backlog, responses, refused, sent,
                   varsIntern>>

\* get_free_port: the OS assigns a free port to a socket that nothing refers
\* to once the function has returned
GetFreePort(p) ==
    /\ pc = "get_free_port"
    /\ holder[p] = "free"
    /\ holder' = [holder EXCEPT ![p] = "probe"]
    /\ port' = p
    /\ pc' = "open_browser"
    /\ UNCHANGED <<argv, command, profile_data, waiting_for_request, opened_url,
                   browser, backlog, responses, refused, sent,
                   varsIntern, varsRecord>>

\* the unreferenced socket of get_free_port is finalized, which closes it:
\* at once under reference counting, at some later time under another
\* collector
ProbeSocketFinalized ==
    /\ pc \in {"open_browser", "bind"}
    /\ holder[port] = "probe"
    /\ holder' = [holder EXCEPT ![port] = "free"]
    /\ UNCHANGED <<pc, argv, command, profile_data, waiting_for_request, port,
                   opened_url, browser, backlog, responses, refused, sent,
                   varsIntern, varsRecord>>

\* webbrowser.open(...)
OpenBrowser ==
    /\ pc = "open_browser"
    /\ opened_url' = VisualizerUrl(port, command)
    /\ browser' = "opened"
    /\ pc' = "bind"
    /\ UNCHANGED <<argv, command, profile_data, waiting_for_request, port, holder,
                   backlog, responses, refused, sent, varsIntern, varsRecord>>

\* http.server.HTTPServer(("", port), ServeFile): bind and listen, or OSError
\* when the port is held
BindServer ==
    /\ pc = "bind"
    /\ IF holder[port] = "free"
       THEN /\ holder' = [holder EXCEPT ![port] = "server"]
            /\ pc' = "serve"
       ELSE /\ pc' = "crashed"
            /\ UNCHANGED holder
    /\ UNCHANGED <<argv, command, profile_data, waiting_for_request, port,
                   opened_url, browser, backlog, responses, refused, sent,
                   varsIntern, varsRecord>>

\* another process of the machine binds the port, which is free again
OtherProcessBinds ==
    /\ pc \in {"open_browser", "bind"}
    /\ holder[port] = "free"
    /\ holder' = [holder EXCEPT ![port] = "other"]
    /\ UNCHANGED <<pc, argv, command, profile_data, waiting_for_request, port,
                   opened_url, browser, backlog, responses, refused, sent,
                   varsIntern, varsRecord>>

\* the browser, once opened, fetches the json_url of the visualizer URL
BrowserFetch ==
    /\ browser = "opened"
    /\ sent < MaxRequests
    /\ sent' = sent + 1
    /\ IF holder[port] = "server"
       THEN /\ backlog' = Append(backlog, "GET")
            /\ browser' = "connected"
       ELSE /\ browser' = IF holder[port] = "other" THEN "foreign"
                          ELSE IF pc = "stopped" THEN "late"
                          ELSE "refused"
            /\ UNCHANGED backlog
    /\ UNCHANGED <<pc, argv, command, profile_data, waiting_for_request, port,
                   holder, opened_url, responses, refused, varsIntern, varsRecord>>

\* any other local client sends a request to the port
ClientRequest(method) ==
    /\ pc \in {"serve", "stopped"}
    /\ sent < MaxRequests
    /\ sent' = sent + 1
    /\ IF holder[port] = "server"
       THEN /\ backlog' = Append(backlog, method)
            /\ UNCHANGED refused
       ELSE /\ refused' = refused + 1
            /\ UNCHANGED backlog
    /\ UNCHANGED <<pc, argv, command, profile_data, waiting_for_request, port,
                   holder, opened_url, browser, responses, varsIntern, varsRecord>>

\* `while waiting_for_request` after server.handle_request() handled the
\* first request of the backlog with result r: the loop goes on, or
\* open_profile and main return and the process exits, closing its sockets
Served(r) ==
    /\ responses' = Append(responses, r)
    /\ waiting_for_request' = r.waiting
    /\ IF r.waiting
       THEN /\ backlog' = Tail(backlog)
            /\ UNCHANGED <<pc, holder>>
       ELSE /\ backlog' = <<>>
            /\ pc' = "stopped"
            /\ holder' = [holder EXCEPT ![port] = "free"]
    /\ UNCHANGED <<argv, command, profile_data, port, opened_url, browser,
                   refused, sent, varsIntern, varsRecord>>

HandleGET(headersOk, bodyOk) ==
    /\ pc = "serve" /\ waiting_for_request
    /\ backlog # <<>> /\ Head(backlog) = "GET"
    /\ Served(do_GET(headersOk, bodyOk, profile_data, waiting_for_request))

HandleHEAD(headersOk) ==
    /\ pc = "serve" /\ waiting_for_request
    /\ backlog # <<>> /\ Head(backlog) = "HEAD"
    /\ Served(do_HEAD(headersOk, waiting_for_request))

\* a request whose method ServeFile has no do_ method for
HandleUnsupported ==
    /\ pc = "serve" /\ waiting_for_request
    /\ backlog # <<>> /\ Head(backlog) = "POST"
    /\ Served(Handled("POST", send_error(501), <<>>, "none", "none",
                      waiting_for_request))

\* a request whose request line does not parse
HandleMalformed ==
    /\ pc = "serve" /\ waiting_for_request
    /\ backlog # <<>> /\ Head(backlog) = "BAD"
    /\ Served(Handled("BAD", send_error(400), <<>>, "none", "none",
                      waiting_for_request))

Next ==
    \/ MainUsageError
    \/ \E run \in SampleRuns, t \in Times : Main(run, t)
    \/ \E p \in Ports : GetFreePort(p)
    \/ ProbeSocketFinalized
    \/ OpenBrowser
    \/ BindServer
    \/ OtherProcessBinds
    \/ BrowserFetch
    \/ \E method \in Methods : ClientRequest(method)
    \/ \E headersOk \in BOOLEAN, bodyOk \in BOOLEAN : HandleGET(headersOk, bodyOk)
    \/ \E headersOk \in BOOLEAN : HandleHEAD(headersOk)
    \/ HandleUnsupported
    \/ HandleMalformed

Spec == Init /\ [][Next]_vars

-----------------------------------------------------------------------------
(* Properties of main, open_profile and ServeFile, under Spec *)

LastResponse == responses[Len(responses)]

\* a GET whose do_GET ran to its end: the headers were written, and the body
\* was written or its write failure was printed
CompletedGET(r) == r.method = "GET" /\ r.fate # "raised"

\* C1 as stated: the serving loop ends after the first request of any
\* method, so the server handles exactly one request and never a second.
C1_OneRequestOnly ==
    /\ Len(responses) <= 1
    /\ Len(responses) = 1 => pc = "stopped"

\* C1 as amended: the serving loop ends after the first GET request whose
\* do_GET runs to its end, and with no other request: a GET is the last
\* request the server answers, and the HEAD, other-method and malformed
\* requests and the GETs whose headers could not be written, handled before
\* it, leave the server waiting.
C1_StopsAfterFirstGET ==
    /\ \A k \in 1..Len(responses) :
           CompletedGET(responses[k]) => k = Len(responses)
    /\ (pc = "stopped") =
           (IF responses = <<>> THEN FALSE ELSE CompletedGET(LastResponse))
    /\ waiting_for_request = (pc # "stopped")
    /\ pc = "stopped" => backlog = <<>> /\ holder[port] # "server"

\* a HEAD was answered, then a GET, and a later request found nobody
C1_Witness ==
    /\ pc = "stopped"
    /\ Len(responses) = 2
    /\ responses[1].method = "HEAD"
    /\ responses[2].method = "GET"
    /\ refused = 1

JsonHeaders(r) ==
    r.content_type = "application/json" /\ r.allow_origin = "*"

\* C6 as stated: every handled request is answered 200, GET and HEAD with
\* the JSON content type and the permissive origin header.
C6_Always200 ==
    \A k \in 1..Len(responses) :
        /\ responses[k].status = 200
        /\ responses[k].method \in {"GET", "HEAD"} => JsonHeaders(responses[k])

\* C6 as amended: every GET and HEAD is answered 200 with the JSON content
\* type and the permissive origin header; a request of another method is
\* answered 501 and a malformed one 400, without those headers.
C6_200ForGetAndHead ==
    \A k \in 1..Len(responses) :
        LET r == responses[k]
        IN  /\ r.method \in {"GET", "HEAD"} => r.status = 200 /\ JsonHeaders(r)
            /\ r.method = "POST" => r.status = 501 /\ ~JsonHeaders(r)
            /\ r.method = "BAD" => r.status = 400 /\ ~JsonHeaders(r)

C6_Witness ==
    /\ Len(responses) = 3
    /\ responses[1].method = "POST" /\ responses[1].status = 501
    /\ responses[2].method = "HEAD" /\ responses[2].status = 200
    /\ responses[3].method = "GET" /\ responses[3].status = 200
    /\ responses[3].body = profile_data

\* C7 as stated: whenever writing the response of a request fails, the
\* failure is printed and does not leave the handler, and the server stops
\* with that request.
C7_AnyWriteFailureStops ==
    \A k \in 1..Len(responses) :
        responses[k].failed # "none" =>
            /\ responses[k].fate = "logged"
            /\ k = Len(responses)
            /\ pc = "stopped"

\* C7 as amended: when writing the body of a GET response fails, the failure
\* is printed and does not leave do_GET, and the server stops with that
\* request; a failure to write the headers leaves the handler instead and
\* the server goes on waiting.
C7_BodyWriteFailureStops ==
    \A k \in 1..Len(responses) :
        LET r == responses[k]
        IN  /\ r.failed = "body" =>
                /\ r.method = "GET"
                /\ r.fate = "logged"
                /\ k = Len(responses)
                /\ pc = "stopped"
                /\ ~waiting_for_request
            /\ r.failed = "headers" =>
                /\ r.fate = "raised"
                /\ r.waiting
                /\ k = Len(responses) => pc = "serve"

\* a GET whose headers failed, then a GET whose body failed, then a request
\* that found nobody
C7_Witness ==
    /\ pc = "stopped"
    /\ Len(responses) = 2
    /\ responses[1].failed = "headers"
    /\ responses[2].failed = "body"
    /\ responses[2].fate = "logged"
    /\ refused = 1

\* C8: the name parameter of the URL opened decodes to the command's
\* arguments, those after the leading --, joined by single spaces.
C8_NameIsCommand ==
    browser # "closed" => DecodedName(opened_url) = Join(Tail(argv))

\* C9: the serving socket is bound before the browser is opened, the port
\* is held by this process from get_free_port until serving stops, and the
\* browser's request never finds the port unbound or another process on it.
C9_PortHeldThroughout ==
    /\ (browser # "closed" /\ pc \notin {"stopped", "crashed"}) =>
           holder[port] = "server"
    /\ pc \in {"open_browser", "bind", "serve"} =>
           holder[port] \in {"probe", "server"}
    /\ pc # "crashed"
    /\ browser \notin {"refused", "foreign"}

====
